---- MODULE Spec2Model ----
(***************************************************************************)
(* foxtimeout: a timeout middleware for the fox router.                    *)
(*                                                                         *)
(* One request is followed through Timeout.run: the filter chain, the      *)
(* resolution of the duration, the bypass (handler run directly against    *)
(* the real sink) or the race between the handler goroutine writing into   *)
(* the timeoutWriter and the deadline of the derived context, and the      *)
(* three terminal paths of the select statement.                           *)
(***************************************************************************)
EXTENDS Integers, Sequences, FiniteSets, TLC

\* ------------------------------------------------------------------ bounds
MaxOps == 2        \* writer operations of the handler, one configuration
MaxCfgOps == 1     \* writer operations of the handler, every configuration
MaxCapOps == 1     \* operations of a handler that uses every method of its writer
MaxOpts == 2       \* options passed to Middleware(dt, opts...)
MaxFewOpts == 1    \* options passed when the handler is varied
MaxRouteOpts == 0  \* options passed when the durations and routes are varied
MaxFilters == 2    \* filters passed to one WithFilter(f...)
MaxDt == 2         \* largest duration (in abstract time units)

\* ------------------------------------------------------- program constants
StatusOK == 200
StatusServiceUnavailable == 503
StatusRequestTimeout == 408
MinStatusCode == 100
MaxStatusCode == 999

\* ------------------------------------------------------------ input domains
Durations == (0 - 1)..MaxDt
NoAnnotation == [set |-> FALSE, dt |-> 0]
After(d) == [set |-> TRUE, dt |-> d]
None == [set |-> TRUE, dt |-> 0]
Annotations == {NoAnnotation, None} \cup {After(d) : d \in Durations}
NoError == "nil"
ErrHandlerTimeout == "http: Handler timeout"
DeadlineExceeded == "context deadline exceeded"
Canceled == "context canceled"
ErrNotSupported == "feature not supported"
NoPanic == [kind |-> "nil", code |-> 0]
Payloads == {[kind |-> "boom", code |-> 0]}
Codes == {99, 201, 404}
Chunks == {<<"a">>}              \* the byte slices the handler passes to Write
Strings == {<<"b", "c">>}        \* the strings it passes to WriteString
\* the readers the handler passes to ReadFrom: what each Read returns, then
\* io.EOF or the error of the reader
ErrUnexpectedEOF == "unexpected EOF"
Sources == {[chunks |-> <<<<"a">>, <<"b", "c">>>>, fail |-> NoError],
            [chunks |-> <<<<"a">>>>, fail |-> ErrUnexpectedEOF]}
Keys == {"K", "S", "T"}
HandlerKeys == {"K"}
\* the keys set by a handler that also replaces a header the real sink carries
ReplacingKeys == HandlerKeys \cup {"S"}
NoResolver == [set |-> FALSE, dt |-> 0, ok |-> FALSE]
Resolvers == {[set |-> TRUE, dt |-> MaxDt, ok |-> TRUE],
              [set |-> TRUE, dt |-> MaxDt, ok |-> FALSE]}
FilterLists == UNION {[1..n -> BOOLEAN] : n \in 0..MaxFilters}
Responders == {"nil", "custom"}

VARIABLES
    dt,          \* Timeout.dt, the global duration
    cfg,         \* Timeout.cfg
    nopts,       \* options create has applied, while it runs
    route,       \* the annotation of the matched route (ctxKey)
    cpc,         \* position of the controller (the goroutine running run)
    fi,          \* index of the next filter to evaluate
    trail,       \* what the controller did, in order
    ctx,         \* the derived context: state and timeout
    tw,          \* the timeoutWriter
    mu,          \* holder of tw.mu
    done,        \* the done channel is closed
    panicChan,   \* content of the capacity-one panic channel
    hpc,         \* position of the handler (next)
    hmode,       \* what the handler writes to: "tw" or "w"
    hops,        \* operations issued by the handler so far
    ret,         \* the handler's last writer call: status code passed, result
    cpClosed,    \* cp.Close() was called
    w,           \* the real sink, c.Writer()
    direct,      \* the real sink of a run of the same handler with no middleware
    bufp,        \* the pool: content of the pooled buffer, gets, puts
    sel,         \* the select statement: signals ready when it decided, case taken
    raised,      \* payload of the panic leaving run
    rdt,         \* the local dt of run: the resolved duration
    hpanic,      \* payload of the panic unwinding the handler goroutine
    arrived,     \* the signals of the select in the order they became ready
    budget,      \* the number of writer operations the handler issues at most
    given,       \* the filters passed to WithFilter, in order, while create runs
    skipAsked,   \* one of the filters passed to WithFilter returns true
    optmax,      \* the number of options passed to Middleware at most
    caps,        \* the handler uses the observers and the optional capabilities
    pusher,      \* the real sink implements http.Pusher
    pushed,      \* the pushes the real sink has received
    rf,          \* the ReadFrom in progress: what is left of src, bytes copied
    copyBufPool, \* the pool of copy buffers: gets, puts
    hkeys        \* the header keys the handler sets

vars == <<dt, cfg, nopts, route, cpc, fi, trail, ctx, tw, mu, done, panicChan,
          hpc, hmode, hops, ret, cpClosed, w, direct, bufp, sel, raised, rdt,
          hpanic, arrived, budget, given, skipAsked, optmax, caps, pusher, pushed,
          rf, copyBufPool, hkeys>>

cfgVars == <<dt, cfg, nopts, route, budget, given, skipAsked, optmax, caps, pusher,
             hkeys>>

\* ------------------------------------------------------------------ headers
EmptyHeader == [k \in Keys |-> <<>>]
SinkHeader == [EmptyHeader EXCEPT !["S"] = <<"s0">>]

\* ---------------------------------------------------------------- real sink
\* The real sink is an http.ResponseWriter: the first WriteHeader fixes the
\* status and the headers that are sent, a Write without one sends 200.
NewSink ==
    [headers |-> SinkHeader, snap |-> EmptyHeader, wroteHeader |-> FALSE,
     code |-> StatusOK, body |-> <<>>, readDeadline |-> FALSE, by |-> {}]

SinkWriteHeader(s, code, who) ==
    IF s.wroteHeader THEN s
    ELSE [s EXCEPT !.wroteHeader = TRUE, !.code = code, !.snap = s.headers,
                   !.by = @ \cup {who}]

SinkWrite(s, p, who) ==
    LET s1 == SinkWriteHeader(s, StatusOK, who)
    IN [s1 EXCEPT !.body = @ \o p, !.by = @ \cup {who}]

SinkSetHeader(s, k, vv) == [s EXCEPT !.headers[k] = vv]

\* What the client receives from a sink: status, the headers sent, the body
\* and its length.
Delivered(s) ==
    [code |-> s.code,
     headers |-> IF s.wroteHeader THEN s.snap ELSE s.headers,
     body |-> s.body,
     size |-> Len(s.body)]

\* -------------------------------------------------------------------- config
defaultConfig ==
    [resolver |-> NoResolver, resp |-> "default", filters |-> <<>>,
     enableAbortRequestBody |-> FALSE]

WithFilter(c, f) == [c EXCEPT !.filters = f]

WithResponse(c, h) == IF h # "nil" THEN [c EXCEPT !.resp = h] ELSE c

WithAbortRequestBody(c, enable) == [c EXCEPT !.enableAbortRequestBody = enable]

WithTimeoutResolver(c, resolver) == [c EXCEPT !.resolver = resolver]

\* TimeoutResolverFunc(func(c) { return dt, true }), the Resolver New falls
\* back on
DefaultResolver(d) == [set |-> TRUE, dt |-> d, ok |-> TRUE]

\* cmp.Or[Resolver](a, b): the first of the two that is not nil
cmpOr(a, b) == IF a.set THEN a ELSE b

\* ---------------------------------------------------------------- resolution
unwrapRouteTimeout(r) ==
    IF r.set THEN [dt |-> r.dt, ok |-> TRUE] ELSE [dt |-> 0, ok |-> FALSE]

\* resolveTimeout preferring a positive global duration to the annotation
resolveTimeoutGlobalFirst(t, r) ==
    LET u == unwrapRouteTimeout(r)
    IN IF t.dt > 0 THEN t.dt ELSE IF u.ok THEN u.dt ELSE t.dt

resolveTimeout(t, r) ==
    LET u == unwrapRouteTimeout(r)
    IN IF u.ok THEN u.dt ELSE t.dt

\* resolveContext of the version of the package that has WithTimeoutResolver:
\* dt, ok := t.cfg.resolver.Resolve(c); the deadline is dt if ok, t.dt if not
resolveContext(t) ==
    IF t.cfg.resolver.ok THEN t.cfg.resolver.dt ELSE t.dt

\* context.WithTimeout(parent, d): a deadline that is not in the future gives
\* a context that is done from the start
WithTimeout(d) ==
    [state |-> IF d <= 0 THEN DeadlineExceeded ELSE "active", timeout |-> d]

\* the check of the upper limit alone
checkWriteHeaderCodeUpper(code) == ~(code > MaxStatusCode)

checkWriteHeaderCode(code) == ~(code < MinStatusCode \/ code > MaxStatusCode)

InvalidCodePayload(code) == [kind |-> "invalid status code", code |-> code]

\* ------------------------------------------------------------ timeoutWriter
\* The value of a timeoutWriter before run constructs it; buf is the content
\* of the one pooled bytes.Buffer, whatever an earlier request left in it.
ZeroWriter(stale) ==
    [headers |-> EmptyHeader, code |-> 0, written |-> FALSE, n |-> 0,
     buf |-> stale, err |-> NoError]

\* the timeoutWriter built over the pooled buffer as bufp.Get returned it
NewWriterKept ==
    [headers |-> EmptyHeader, code |-> StatusOK, written |-> FALSE, n |-> 0,
     buf |-> tw.buf, err |-> NoError]

\* tw := &timeoutWriter{...} after buf.Reset()
NewWriter ==
    [headers |-> EmptyHeader, code |-> StatusOK, written |-> FALSE, n |-> 0,
     buf |-> <<>>, err |-> NoError]

\* writeHeaderLocked storing the code of a superfluous call
writeHeaderLockedLast(t, code) ==
    CASE t.err # NoError -> t
      [] OTHER -> [t EXCEPT !.written = TRUE, !.code = code]

\* writeHeaderLocked for a code that passed checkWriteHeaderCode
writeHeaderLocked(t, code) ==
    CASE t.err # NoError -> t
      [] t.written -> t
      [] OTHER -> [t EXCEPT !.written = TRUE, !.code = code]

\* Write without the check of tw.err
WriteNoGuard(t, p) ==
    LET t1 == IF ~t.written THEN [t EXCEPT !.written = TRUE, !.code = StatusOK] ELSE t
    IN [tw |-> [t1 EXCEPT !.buf = @ \o p, !.n = @ + Len(p)],
        n |-> Len(p), err |-> NoError]

\* Write: the lock is taken by the caller's step
Write(t, p) ==
    IF t.err # NoError
    THEN [tw |-> t, n |-> 0, err |-> t.err]
    ELSE LET t1 == IF ~t.written THEN writeHeaderLocked(t, StatusOK) ELSE t
         IN [tw |-> [t1 EXCEPT !.buf = @ \o p, !.n = @ + Len(p)],
             n |-> Len(p), err |-> NoError]

\* WriteString without the check of tw.err
WriteStringNoGuard(t, s) ==
    LET t1 == IF ~t.written THEN [t EXCEPT !.written = TRUE, !.code = StatusOK] ELSE t
    IN [tw |-> [t1 EXCEPT !.buf = @ \o s, !.n = @ + Len(s)],
        n |-> Len(s), err |-> NoError]

WriteString(t, s) ==
    IF t.err # NoError
    THEN [tw |-> t, n |-> 0, err |-> t.err]
    ELSE LET t1 == IF ~t.written THEN writeHeaderLocked(t, StatusOK) ELSE t
         IN [tw |-> [t1 EXCEPT !.buf = @ \o s, !.n = @ + Len(s)],
             n |-> Len(s), err |-> NoError]

\* The observers: each returns its field, without taking tw.mu.
Status(t) == t.code

Written(t) == t.written

Size(t) == t.n

\* The Push of the real sink: forwarded to the http.Pusher under it when it
\* has one, refused otherwise. n counts the pushes received.
SinkPush(supported, n) ==
    IF supported THEN [n |-> n + 1, err |-> NoError]
    ELSE [n |-> n, err |-> ErrNotSupported]

\* timeoutWriter.Push: return tw.w.Push(target, opts)
Push(t, supported, n) == SinkPush(supported, n)

FlushError(t) == ErrNotSupported

Hijack(t) == ErrNotSupported

\* SetReadDeadline handing the deadline to the real sink
SetReadDeadlineForward(t, s) ==
    [w |-> [s EXCEPT !.readDeadline = TRUE], err |-> NoError]

\* timeoutWriter.SetReadDeadline, with the real sink s it leaves alone
SetReadDeadline(t, s) == [w |-> s, err |-> ErrNotSupported]

SetWriteDeadline(t) == ErrNotSupported

\* ----------------------------------------------------------------- responder
DefaultTimeoutResponse(s) ==
    SinkWrite(SinkWriteHeader(SinkSetHeader(s, "T", <<"text/plain">>),
                              StatusServiceUnavailable, "resp"),
              <<"Service Unavailable">>, "resp")

timeoutResponse(s) ==
    SinkWrite(SinkWriteHeader(SinkSetHeader(s, "T", <<"text/plain">>),
                              StatusRequestTimeout, "resp"),
              <<"Request Timeout">>, "resp")

\* the responder call bound to DefaultTimeoutResponse instead of cfg.resp
RespondDefaultOnly(r, s) == DefaultTimeoutResponse(s)

Respond(r, s) == IF r = "default" THEN DefaultTimeoutResponse(s) ELSE timeoutResponse(s)

\* ---------------------------------------------------------------------- Init
NoSelect == [ready |-> {}, case |-> "none", p |-> NoPanic]
NoReturn == [op |-> "none", code |-> 0, n |-> 0, err |-> NoError]
NoCopy == [src |-> <<>>, fail |-> NoError, n |-> 0]

\* The inputs, varied one at a time: every global duration and route
\* annotation; up to MaxOpts options on an empty pooled buffer, and a pooled
\* buffer still holding the bytes of an earlier request; a handler of up to
\* MaxOps operations, which also sets a header the real sink already carries;
\* a handler that uses the observers, ReadFrom and the optional capabilities,
\* on a real sink with http.Pusher (with up to MaxFewOpts options) and
\* without.  All but the first run under a positive global duration on a
\* route without annotation.
Families ==
    \/ /\ dt \in Durations /\ route \in Annotations
       /\ optmax = MaxRouteOpts /\ budget = MaxCfgOps
       /\ caps = FALSE /\ pusher = FALSE
       /\ tw = ZeroWriter(<<>>)
       /\ hkeys = HandlerKeys
    \/ /\ dt = 1 /\ route = NoAnnotation
       /\ budget = MaxCfgOps
       /\ caps = FALSE /\ pusher = FALSE
       /\ tw \in {ZeroWriter(<<>>), ZeroWriter(<<"z">>)}
       /\ optmax = (IF tw.buf = <<>> THEN MaxOpts ELSE MaxRouteOpts)
       /\ hkeys = HandlerKeys
    \/ /\ dt = 1 /\ route = NoAnnotation
       /\ optmax = MaxRouteOpts /\ budget = MaxOps
       /\ caps = FALSE /\ pusher = FALSE
       /\ tw = ZeroWriter(<<>>)
       /\ hkeys = ReplacingKeys
    \/ /\ dt = 1 /\ route = NoAnnotation
       /\ budget = MaxCapOps
       /\ caps = TRUE /\ pusher \in BOOLEAN
       /\ optmax = (IF pusher THEN MaxFewOpts ELSE MaxRouteOpts)
       /\ tw = ZeroWriter(<<>>)
       /\ hkeys = HandlerKeys

\* the state in which create or New starts, whatever the inputs
Start ==
    /\ pushed = 0
    /\ rf = NoCopy
    /\ copyBufPool = [gets |-> 0, puts |-> 0]
    /\ cfg = defaultConfig
    /\ nopts = 0
    /\ given = <<>>
    /\ skipAsked = FALSE
    /\ cpc = "create"
    /\ fi = 1
    /\ trail = <<>>
    /\ ctx = [state |-> "none", timeout |-> 0]
    /\ mu = "free"
    /\ done = FALSE
    /\ panicChan = <<>>
    /\ hpc = "idle"
    /\ hmode = "none"
    /\ hops = 0
    /\ ret = NoReturn
    /\ cpClosed = FALSE
    /\ w = NewSink
    /\ direct = NewSink
    /\ bufp = [gets |-> 0, puts |-> 0]
    /\ sel = NoSelect
    /\ raised = NoPanic
    /\ rdt = 0
    /\ hpanic = NoPanic
    /\ arrived = <<>>

Init == Families /\ Start

\* The inputs of the version that has a Resolver: a global duration that
\* disables the middleware or not, up to MaxFewOpts options, a handler of up
\* to MaxCfgOps operations.
ResolverFamilies ==
    /\ dt \in 0..1 /\ route = NoAnnotation
    /\ optmax = MaxFewOpts /\ budget = MaxCfgOps
    /\ caps = FALSE /\ pusher = FALSE
    /\ tw = ZeroWriter(<<>>)
    /\ hkeys = HandlerKeys

InitResolver == ResolverFamilies /\ Start

\* ------------------------------------------------- create(dt, opts...)
OptWithFilter ==
    /\ cpc = "create" /\ nopts < optmax
    /\ \E f \in FilterLists :
        /\ cfg' = WithFilter(cfg, f)
        /\ given' = given \o f
        /\ skipAsked' = (skipAsked \/ \E i \in DOMAIN f : f[i])
    /\ nopts' = nopts + 1
    /\ UNCHANGED <<dt, route, budget, optmax, caps, pusher, hkeys, pushed, rf, copyBufPool, cpc, fi, trail, ctx, tw, mu, done, panicChan, hpc,
                   hmode, hops, ret, cpClosed, w, direct, bufp, sel, raised, rdt,
                   hpanic, arrived>>

OptWithResponse ==
    /\ cpc = "create" /\ nopts < optmax
    /\ \E h \in Responders : cfg' = WithResponse(cfg, h)
    /\ nopts' = nopts + 1
    /\ UNCHANGED <<given, skipAsked, dt, route, budget, optmax, caps, pusher, hkeys, pushed, rf, copyBufPool, cpc, fi, trail, ctx, tw, mu, done, panicChan, hpc,
                   hmode, hops, ret, cpClosed, w, direct, bufp, sel, raised, rdt,
                   hpanic, arrived>>

\* WithAbortRequestBody belongs to the version of the package that has no
\* Resolver
OptWithAbortRequestBody ==
    /\ cpc = "create" /\ nopts < optmax
    /\ ~cfg.resolver.set
    /\ \E enable \in BOOLEAN : cfg' = WithAbortRequestBody(cfg, enable)
    /\ nopts' = nopts + 1
    /\ UNCHANGED <<given, skipAsked, dt, route, budget, optmax, caps, pusher, hkeys, pushed, rf, copyBufPool, cpc, fi, trail, ctx, tw, mu, done, panicChan, hpc,
                   hmode, hops, ret, cpClosed, w, direct, bufp, sel, raised, rdt,
                   hpanic, arrived>>

\* WithTimeoutResolver belongs to the version of the package whose routes
\* carry no timeout annotation and that has no WithAbortRequestBody
OptWithTimeoutResolver ==
    /\ cpc = "create" /\ nopts < optmax
    /\ ~route.set /\ ~cfg.enableAbortRequestBody
    /\ \E r \in Resolvers : cfg' = WithTimeoutResolver(cfg, r)
    /\ nopts' = nopts + 1
    /\ UNCHANGED <<given, skipAsked, dt, route, budget, optmax, caps, pusher, hkeys, pushed, rf, copyBufPool, cpc, fi, trail, ctx, tw, mu, done, panicChan, hpc,
                   hmode, hops, ret, cpClosed, w, direct, bufp, sel, raised, rdt,
                   hpanic, arrived>>

\* create returns the Timeout and a request reaches the function run returned;
\* the option list is consumed, the config it built is all that remains
create ==
    /\ cpc = "create"
    /\ cpc' = "filters"
    /\ nopts' = 0
    /\ given' = <<>>
    /\ UNCHANGED <<dt, cfg, route, budget, skipAsked, optmax, caps, pusher, hkeys, pushed, rf, copyBufPool, fi, trail, ctx, tw, mu, done, panicChan, hpc, hmode,
                   hops, ret, cpClosed, w, direct, bufp, sel, raised, rdt, hpanic, arrived>>

\* New(dt, opts...) of the version that has a Resolver: the options are
\* applied, then cfg.resolver falls back on the Resolver returning (dt, true);
\* a request reaches the function Timeout returned
New ==
    /\ cpc = "create"
    /\ cfg' = [cfg EXCEPT !.resolver = cmpOr(cfg.resolver, DefaultResolver(dt))]
    /\ cpc' = "filters"
    /\ nopts' = 0
    /\ given' = <<>>
    /\ UNCHANGED <<dt, route, budget, skipAsked, optmax, caps, pusher, hkeys, pushed, rf, copyBufPool, fi, trail, ctx, tw, mu, done, panicChan, hpc, hmode,
                   hops, ret, cpClosed, w, direct, bufp, sel, raised, rdt, hpanic, arrived>>

\* ------------------------------------------------------------------ run
\* the filter loop with the sense of the filters inverted: if !f(c)
RunFilterInverted ==
    /\ cpc = "filters" /\ fi <= Len(cfg.filters)
    /\ cfg.resolver.set => ctx.state # "none"
    /\ trail' = IF ~cfg.filters[fi]
                THEN trail \o <<<<"filter", fi>>, <<"next", 0>>>>
                ELSE Append(trail, <<"filter", fi>>)
    /\ IF ~cfg.filters[fi]
       THEN /\ cpc' = "next"
            /\ hpc' = "running"
            /\ hmode' = "w"
            /\ fi' = fi
       ELSE /\ fi' = fi + 1
            /\ cpc' = IF cfg.resolver.set /\ fi = Len(cfg.filters)
                      THEN "setup" ELSE cpc
            /\ UNCHANGED <<hpc, hmode>>
    /\ UNCHANGED <<cfgVars, rf, copyBufPool, pushed, ctx, tw, mu, done, panicChan, hops, ret, cpClosed, w,
                   direct, bufp, sel, raised, rdt, hpanic, arrived>>

\* one iteration of the filter loop: f(c), and next(c) if it asks to skip.
\* In the version that has a Resolver the loop follows resolveContext and the
\* setup follows the loop.
RunFilter ==
    /\ cpc = "filters" /\ fi <= Len(cfg.filters)
    /\ cfg.resolver.set => ctx.state # "none"
    /\ trail' = IF cfg.filters[fi]
                THEN trail \o <<<<"filter", fi>>, <<"next", 0>>>>
                ELSE Append(trail, <<"filter", fi>>)
    /\ IF cfg.filters[fi]
       THEN /\ cpc' = "next"
            /\ hpc' = "running"
            /\ hmode' = "w"
            /\ fi' = fi
       ELSE /\ fi' = fi + 1
            /\ cpc' = IF cfg.resolver.set /\ fi = Len(cfg.filters)
                      THEN "setup" ELSE cpc
            /\ UNCHANGED <<hpc, hmode>>
    /\ UNCHANGED <<cfgVars, rf, copyBufPool, pushed, ctx, tw, mu, done, panicChan, hops, ret, cpClosed, w,
                   direct, bufp, sel, raised, rdt, hpanic, arrived>>

\* The function Timeout returns, in the version that has a Resolver, up to the
\* filter loop: the wrapper is next itself when t.dt <= 0; otherwise
\* ctx, cancel := t.resolveContext(c) and defer cancel().
RunResolveContext ==
    /\ cpc = "filters" /\ fi = 1
    /\ cfg.resolver.set /\ ctx.state = "none"
    /\ IF dt <= 0
       THEN /\ cpc' = "next"
            /\ hpc' = "running"
            /\ hmode' = "w"
            /\ trail' = Append(trail, <<"next", 0>>)
            /\ UNCHANGED <<rdt, ctx, arrived>>
       ELSE /\ rdt' = resolveContext([dt |-> dt, cfg |-> cfg])
            /\ ctx' = WithTimeout(rdt')
            /\ arrived' = IF rdt' <= 0 THEN Append(arrived, "ctx") ELSE arrived
            /\ cpc' = IF Len(cfg.filters) = 0 THEN "setup" ELSE cpc
            /\ trail' = Append(trail, <<"resolve", rdt'>>)
            /\ UNCHANGED <<hpc, hmode>>
    /\ UNCHANGED <<cfgVars, rf, copyBufPool, pushed, fi, tw, mu, done, panicChan, hops, ret, cpClosed,
                   w, direct, bufp, sel, raised, hpanic>>

\* the resolution with the test dt < 0 in place of dt <= 0
RunResolveStrict ==
    /\ cpc = "filters" /\ fi > Len(cfg.filters)
    /\ ~cfg.resolver.set
    /\ rdt' = resolveTimeout([dt |-> dt, cfg |-> cfg], route)
    /\ trail' = IF rdt' < 0
                THEN trail \o <<<<"resolve", rdt'>>, <<"next", 0>>>>
                ELSE Append(trail, <<"resolve", rdt'>>)
    /\ IF rdt' < 0
       THEN /\ cpc' = "next"
            /\ hpc' = "running"
            /\ hmode' = "w"
       ELSE /\ cpc' = "setup"
            /\ UNCHANGED <<hpc, hmode>>
    /\ UNCHANGED <<cfgVars, rf, copyBufPool, pushed, fi, ctx, tw, mu, done, panicChan, hops, ret, cpClosed,
                   w, direct, bufp, sel, raised, hpanic, arrived>>

\* dt := t.resolveTimeout(c); if dt <= 0 { next(c) }
RunResolve ==
    /\ cpc = "filters" /\ fi > Len(cfg.filters)
    /\ ~cfg.resolver.set
    /\ rdt' = resolveTimeout([dt |-> dt, cfg |-> cfg], route)
    /\ trail' = IF rdt' <= 0
                THEN trail \o <<<<"resolve", rdt'>>, <<"next", 0>>>>
                ELSE Append(trail, <<"resolve", rdt'>>)
    /\ IF rdt' <= 0
       THEN /\ cpc' = "next"
            /\ hpc' = "running"
            /\ hmode' = "w"
       ELSE /\ cpc' = "setup"
            /\ UNCHANGED <<hpc, hmode>>
    /\ UNCHANGED <<cfgVars, rf, copyBufPool, pushed, fi, ctx, tw, mu, done, panicChan, hops, ret, cpClosed,
                   w, direct, bufp, sel, raised, hpanic, arrived>>

\* the setup with close(done) executed before next(cp) runs
RunSetupDoneEarly ==
    /\ cpc = "setup"
    /\ ctx' = IF cfg.resolver.set THEN ctx ELSE WithTimeout(rdt)
    /\ bufp' = [bufp EXCEPT !.gets = @ + 1]
    /\ tw' = NewWriter
    /\ hpc' = "running"
    /\ hmode' = "tw"
    /\ cpc' = "select"
    /\ done' = TRUE
    /\ trail' = trail \o <<<<"get", Len(tw.buf)>>, <<"go", rdt>>>>
    /\ UNCHANGED <<cfgVars, rf, copyBufPool, pushed, fi, mu, panicChan, hops, ret, cpClosed, w,
                   direct, sel, raised, rdt, hpanic, arrived>>

\* context.WithTimeout, bufp.Get, buf.Reset, the timeoutWriter, the clone and
\* the go statement
RunSetup ==
    /\ cpc = "setup"
    /\ ctx' = IF cfg.resolver.set THEN ctx ELSE WithTimeout(rdt)
    /\ bufp' = [bufp EXCEPT !.gets = @ + 1]
    /\ tw' = NewWriter
    /\ hpc' = "running"
    /\ hmode' = "tw"
    /\ cpc' = "select"
    /\ trail' = trail \o <<<<"get", Len(tw.buf)>>, <<"go", rdt>>>>
    /\ UNCHANGED <<cfgVars, rf, copyBufPool, pushed, fi, mu, done, panicChan, hops, ret, cpClosed, w,
                   direct, sel, raised, rdt, hpanic, arrived>>

\* ------------------------------------------------------------ the select
\* The cases of the select statement that can proceed.
Ready ==
    (IF panicChan # <<>> THEN {"panic"} ELSE {})
    \cup (IF done THEN {"done"} ELSE {})
    \cup (IF ctx.state # "active" THEN {"ctx"} ELSE {})

\* the select with the bodies of the done and the ctx.Done cases exchanged
CasePcSwapped(c) ==
    CASE c = "panic" -> "reraise"
      [] c = "done" -> "timeout"
      [] c = "ctx" -> "commit"

CasePc(c) ==
    CASE c = "panic" -> "reraise"
      [] c = "done" -> "commit"
      [] c = "ctx" -> "timeout"

\* every signal starts its path, whether or not the controller still waits
WakeCpcAlways(c) == CasePc(c)

\* A goroutine blocked in select is resumed by the first channel operation
\* that makes one of its cases ready, with that case.
WakeCpc(c) == IF cpc = "parked" THEN CasePc(c) ELSE cpc
WakeSel(c, p) == IF cpc = "parked" THEN [ready |-> {c}, case |-> c, p |-> p] ELSE sel

\* The controller reaches the select: it takes one of the ready cases, any of
\* them when several are ready, and blocks when none is.
RunSelect ==
    /\ cpc = "select"
    /\ IF Ready = {}
       THEN /\ cpc' = "parked"
            /\ UNCHANGED <<sel, panicChan>>
       ELSE \E c \in Ready :
            /\ cpc' = CasePc(c)
            /\ sel' = [ready |-> Ready, case |-> c,
                       p |-> IF c = "panic" THEN Head(panicChan) ELSE NoPanic]
            /\ panicChan' = IF c = "panic" THEN <<>> ELSE panicChan
    /\ UNCHANGED <<cfgVars, rf, copyBufPool, pushed, fi, trail, ctx, tw, mu, done, hpc, hmode, hops, ret,
                   cpClosed, w, direct, bufp, raised, rdt, hpanic, arrived>>

\* the timer of the derived context fires
DeadlineExpire ==
    /\ ctx.state = "active"
    /\ ctx' = [ctx EXCEPT !.state = DeadlineExceeded]
    /\ arrived' = Append(arrived, "ctx")
    /\ cpc' = WakeCpc("ctx")
    /\ sel' = WakeSel("ctx", NoPanic)
    /\ UNCHANGED <<cfgVars, rf, copyBufPool, pushed, fi, trail, tw, mu, done, panicChan, hpc, hmode, hops,
                   ret, cpClosed, w, direct, bufp, raised, rdt, hpanic>>

\* the context of the incoming request is cancelled before the deadline
UpstreamCancel ==
    /\ ctx.state = "active"
    /\ ctx' = [ctx EXCEPT !.state = Canceled]
    /\ arrived' = Append(arrived, "ctx")
    /\ cpc' = WakeCpc("ctx")
    /\ sel' = WakeSel("ctx", NoPanic)
    /\ UNCHANGED <<cfgVars, rf, copyBufPool, pushed, fi, trail, tw, mu, done, panicChan, hpc, hmode, hops,
                   ret, cpClosed, w, direct, bufp, raised, rdt, hpanic>>

\* ------------------------------------------------------------- the handler
\* A panic in the handler: it unwinds the handler goroutine when the handler
\* was spawned, and leaves run when the handler was called directly, through
\* the deferred cancel() when run has derived a context.
Throw(p) ==
    /\ hpanic' = p
    /\ IF hmode = "tw"
       THEN /\ hpc' = "panicked"
            /\ UNCHANGED <<cpc, raised>>
       ELSE /\ hpc' = "exited"
            /\ cpc' = IF ctx.state = "none" THEN "panicked" ELSE "cancel"
            /\ raised' = p

Running == hpc = "running" /\ hops < budget

\* Write entered without waiting for tw.mu
HWriteUnlocked ==
    /\ Running
    /\ \E p \in Chunks :
        /\ IF hmode = "tw"
           THEN /\ tw' = Write(tw, p).tw
                /\ ret' = [op |-> "Write", code |-> 0, n |-> Write(tw, p).n, err |-> Write(tw, p).err]
                /\ w' = w
           ELSE /\ w' = SinkWrite(w, p, "handler")
                /\ ret' = [op |-> "Write", code |-> 0, n |-> Len(p), err |-> NoError]
                /\ tw' = tw
        /\ direct' = SinkWrite(direct, p, "handler")
    /\ hops' = hops + 1
    /\ UNCHANGED <<cfgVars, rf, copyBufPool, pushed, cpc, fi, trail, ctx, mu, done, panicChan, hpc, hmode,
                   cpClosed, bufp, sel, raised, rdt, hpanic, arrived>>

\* c.Writer().Write(p)
HWrite ==
    /\ Running
    /\ \E p \in Chunks :
        /\ IF hmode = "tw"
           THEN /\ mu = "free"
                /\ tw' = Write(tw, p).tw
                /\ ret' = [op |-> "Write", code |-> 0, n |-> Write(tw, p).n, err |-> Write(tw, p).err]
                /\ w' = w
           ELSE /\ w' = SinkWrite(w, p, "handler")
                /\ ret' = [op |-> "Write", code |-> 0, n |-> Len(p), err |-> NoError]
                /\ tw' = tw
        /\ direct' = SinkWrite(direct, p, "handler")
    /\ hops' = hops + 1
    /\ UNCHANGED <<cfgVars, rf, copyBufPool, pushed, cpc, fi, trail, ctx, mu, done, panicChan, hpc, hmode,
                   cpClosed, bufp, sel, raised, rdt, hpanic, arrived>>

\* WriteString without tw.n += n
HWriteStringUncounted ==
    /\ Running
    /\ \E s \in Strings :
        /\ IF hmode = "tw"
           THEN /\ mu = "free"
                /\ tw' = [WriteString(tw, s).tw EXCEPT !.n = tw.n]
                /\ ret' = [op |-> "WriteString", code |-> 0, n |-> WriteString(tw, s).n,
                            err |-> WriteString(tw, s).err]
                /\ w' = w
           ELSE /\ w' = SinkWrite(w, s, "handler")
                /\ ret' = [op |-> "WriteString", code |-> 0, n |-> Len(s), err |-> NoError]
                /\ tw' = tw
        /\ direct' = SinkWrite(direct, s, "handler")
    /\ hops' = hops + 1
    /\ UNCHANGED <<cfgVars, rf, copyBufPool, pushed, cpc, fi, trail, ctx, mu, done, panicChan, hpc, hmode,
                   cpClosed, bufp, sel, raised, rdt, hpanic, arrived>>

\* c.Writer().WriteString(s)
HWriteString ==
    /\ Running
    /\ \E s \in Strings :
        /\ IF hmode = "tw"
           THEN /\ mu = "free"
                /\ tw' = WriteString(tw, s).tw
                /\ ret' = [op |-> "WriteString", code |-> 0, n |-> WriteString(tw, s).n,
                            err |-> WriteString(tw, s).err]
                /\ w' = w
           ELSE /\ w' = SinkWrite(w, s, "handler")
                /\ ret' = [op |-> "WriteString", code |-> 0, n |-> Len(s), err |-> NoError]
                /\ tw' = tw
        /\ direct' = SinkWrite(direct, s, "handler")
    /\ hops' = hops + 1
    /\ UNCHANGED <<cfgVars, rf, copyBufPool, pushed, cpc, fi, trail, ctx, mu, done, panicChan, hpc, hmode,
                   cpClosed, bufp, sel, raised, rdt, hpanic, arrived>>

\* c.Writer().WriteHeader(code)
HWriteHeader ==
    /\ Running
    /\ hmode = "tw" => mu = "free"
    /\ \E code \in Codes :
        /\ IF ~checkWriteHeaderCode(code)
           THEN /\ Throw(InvalidCodePayload(code))
                /\ UNCHANGED <<tw, w, direct>>
           ELSE /\ IF hmode = "tw"
                   THEN tw' = writeHeaderLocked(tw, code) /\ w' = w
                   ELSE w' = SinkWriteHeader(w, code, "handler") /\ tw' = tw
                /\ direct' = SinkWriteHeader(direct, code, "handler")
                /\ UNCHANGED <<cpc, raised, hpc, hpanic>>
        /\ ret' = [op |-> "WriteHeader", code |-> code, n |-> 0, err |-> NoError]
    /\ hops' = hops + 1
    /\ UNCHANGED <<cfgVars, rf, copyBufPool, pushed, fi, trail, ctx, mu, done, panicChan, hmode,
                   cpClosed, bufp, sel, rdt, arrived>>

\* c.Writer().Header().Set(k, v)
HSetHeader ==
    /\ Running
    /\ \E k \in hkeys :
        /\ IF hmode = "tw"
           THEN tw' = [tw EXCEPT !.headers[k] = <<"v">>] /\ w' = w
           ELSE w' = SinkSetHeader(w, k, <<"v">>) /\ tw' = tw
        /\ direct' = SinkSetHeader(direct, k, <<"v">>)
    /\ hops' = hops + 1
    /\ ret' = [op |-> "Header", code |-> 0, n |-> 0, err |-> NoError]
    /\ UNCHANGED <<cfgVars, rf, copyBufPool, pushed, cpc, fi, trail, ctx, mu, done, panicChan, hpc, hmode,
                   cpClosed, bufp, sel, raised, rdt, hpanic, arrived>>

\* The observers and the optional capabilities, called on the timeoutWriter.
\* None of them takes tw.mu.
UsesCaps == hpc = "running" /\ hops < budget /\ caps /\ hmode = "tw"

\* c.Writer().FlushError()
HFlushError ==
    /\ UsesCaps
    /\ ret' = [op |-> "FlushError", code |-> 0, n |-> 0, err |-> FlushError(tw)]
    /\ hops' = hops + 1
    /\ UNCHANGED <<cfgVars, rf, copyBufPool, pushed, cpc, fi, trail, ctx, tw, mu, done, panicChan,
                   hpc, hmode, cpClosed, w, direct, bufp, sel, raised, rdt, hpanic,
                   arrived>>

\* c.Writer().Hijack()
HHijack ==
    /\ UsesCaps
    /\ ret' = [op |-> "Hijack", code |-> 0, n |-> 0, err |-> Hijack(tw)]
    /\ hops' = hops + 1
    /\ UNCHANGED <<cfgVars, rf, copyBufPool, pushed, cpc, fi, trail, ctx, tw, mu, done, panicChan,
                   hpc, hmode, cpClosed, w, direct, bufp, sel, raised, rdt, hpanic,
                   arrived>>

\* c.Writer().SetReadDeadline(deadline)
HSetReadDeadline ==
    /\ UsesCaps
    /\ w' = SetReadDeadline(tw, w).w
    /\ ret' = [op |-> "SetReadDeadline", code |-> 0, n |-> 0,
                err |-> SetReadDeadline(tw, w).err]
    /\ hops' = hops + 1
    /\ UNCHANGED <<cfgVars, rf, copyBufPool, pushed, cpc, fi, trail, ctx, tw, mu, done, panicChan,
                   hpc, hmode, cpClosed, direct, bufp, sel, raised, rdt, hpanic,
                   arrived>>

\* c.Writer().SetWriteDeadline(deadline)
HSetWriteDeadline ==
    /\ UsesCaps
    /\ ret' = [op |-> "SetWriteDeadline", code |-> 0, n |-> 0,
                err |-> SetWriteDeadline(tw)]
    /\ hops' = hops + 1
    /\ UNCHANGED <<cfgVars, rf, copyBufPool, pushed, cpc, fi, trail, ctx, tw, mu, done, panicChan,
                   hpc, hmode, cpClosed, w, direct, bufp, sel, raised, rdt, hpanic,
                   arrived>>

\* c.Writer().Push(target, opts)
HPush ==
    /\ UsesCaps
    /\ pushed' = Push(tw, pusher, pushed).n
    /\ ret' = [op |-> "Push", code |-> 0, n |-> 0, err |-> Push(tw, pusher, pushed).err]
    /\ hops' = hops + 1
    /\ UNCHANGED <<cfgVars, rf, copyBufPool, cpc, fi, trail, ctx, tw, mu, done, panicChan,
                   hpc, hmode, cpClosed, w, direct, bufp, sel, raised, rdt, hpanic,
                   arrived>>

\* c.Writer().Status()
HStatus ==
    /\ UsesCaps
    /\ ret' = [op |-> "Status", code |-> Status(tw), n |-> 0, err |-> NoError]
    /\ hops' = hops + 1
    /\ UNCHANGED <<cfgVars, rf, copyBufPool, pushed, cpc, fi, trail, ctx, tw, mu, done, panicChan,
                   hpc, hmode, cpClosed, w, direct, bufp, sel, raised, rdt, hpanic,
                   arrived>>

\* c.Writer().Written(), the result recorded as 1 for true and 0 for false
HWritten ==
    /\ UsesCaps
    /\ ret' = [op |-> "Written", code |-> 0, n |-> IF Written(tw) THEN 1 ELSE 0,
                err |-> NoError]
    /\ hops' = hops + 1
    /\ UNCHANGED <<cfgVars, rf, copyBufPool, pushed, cpc, fi, trail, ctx, tw, mu, done, panicChan,
                   hpc, hmode, cpClosed, w, direct, bufp, sel, raised, rdt, hpanic,
                   arrived>>

\* c.Writer().Size()
HSize ==
    /\ UsesCaps
    /\ ret' = [op |-> "Size", code |-> 0, n |-> Size(tw), err |-> NoError]
    /\ hops' = hops + 1
    /\ UNCHANGED <<cfgVars, rf, copyBufPool, pushed, cpc, fi, trail, ctx, tw, mu, done, panicChan,
                   hpc, hmode, cpClosed, w, direct, bufp, sel, raised, rdt, hpanic,
                   arrived>>

\* all the bytes of a sequence of chunks
RECURSIVE Flatten(_)
Flatten(cs) == IF cs = <<>> THEN <<>> ELSE Head(cs) \o Flatten(Tail(cs))

\* c.Writer().ReadFrom(src): copyBufPool.Get and the entry into io.CopyBuffer;
\* ret names the call in progress, its result comes with the return
HReadFrom ==
    /\ UsesCaps
    /\ \E src \in Sources : rf' = [src |-> src.chunks, fail |-> src.fail, n |-> 0]
    /\ copyBufPool' = [copyBufPool EXCEPT !.gets = @ + 1]
    /\ hpc' = "copying"
    /\ hops' = hops + 1
    /\ ret' = [op |-> "ReadFrom", code |-> 0, n |-> 0, err |-> NoError]
    /\ UNCHANGED <<cfgVars, pushed, cpc, fi, trail, ctx, tw, mu, done, panicChan,
                   hmode, cpClosed, w, direct, bufp, sel, raised, rdt, hpanic,
                   arrived>>

\* the loop of io.CopyBuffer appending to the buffer without going through Write
HCopyStepDirect ==
    /\ hpc = "copying"
    /\ rf.src # <<>>
    /\ mu = "free"
    /\ tw' = [tw EXCEPT !.buf = @ \o Head(rf.src), !.n = @ + Len(Head(rf.src)),
                         !.written = TRUE]
    /\ rf' = [rf EXCEPT !.src = Tail(@), !.n = @ + Len(Head(rf.src))]
    /\ direct' = SinkWrite(direct, Head(rf.src), "handler")
    /\ UNCHANGED <<ret, copyBufPool, hpc>>
    /\ UNCHANGED <<cfgVars, pushed, cpc, fi, trail, ctx, mu, done, panicChan, hmode,
                   hops, cpClosed, w, bufp, sel, raised, rdt, hpanic, arrived>>

\* One turn of the loop of io.CopyBuffer: src.Read fills the copy buffer and
\* onlyWrite{tw}.Write takes it.  A Write that returns an error ends the loop:
\* copyBufPool.Put and the return of ReadFrom follow.
HCopyStep ==
    /\ hpc = "copying"
    /\ rf.src # <<>>
    /\ mu = "free"
    /\ LET r == Write(tw, Head(rf.src))
       IN /\ tw' = r.tw
          /\ IF r.err = NoError
             THEN /\ rf' = [rf EXCEPT !.src = Tail(@), !.n = @ + r.n]
                  /\ direct' = SinkWrite(direct, Head(rf.src), "handler")
                  /\ UNCHANGED <<ret, copyBufPool, hpc>>
             ELSE /\ ret' = [op |-> "ReadFrom", code |-> 0, n |-> rf.n + r.n, err |-> r.err]
                  /\ copyBufPool' = [copyBufPool EXCEPT !.puts = @ + 1]
                  /\ rf' = NoCopy
                  /\ direct' = SinkWrite(direct, Flatten(rf.src), "handler")
                  /\ hpc' = "running"
    /\ UNCHANGED <<cfgVars, pushed, cpc, fi, trail, ctx, mu, done, panicChan, hmode,
                   hops, cpClosed, w, bufp, sel, raised, rdt, hpanic, arrived>>

\* src.Read returns io.EOF or its error: the loop ends, copyBufPool.Put and the
\* return of ReadFrom follow
HCopyEnd ==
    /\ hpc = "copying"
    /\ rf.src = <<>>
    /\ ret' = [op |-> "ReadFrom", code |-> 0, n |-> rf.n, err |-> rf.fail]
    /\ copyBufPool' = [copyBufPool EXCEPT !.puts = @ + 1]
    /\ rf' = NoCopy
    /\ hpc' = "running"
    /\ UNCHANGED <<cfgVars, pushed, cpc, fi, trail, ctx, tw, mu, done, panicChan,
                   hmode, hops, cpClosed, w, direct, bufp, sel, raised, rdt, hpanic,
                   arrived>>

\* the handler panics
HPanic ==
    /\ hpc = "running"
    /\ \E p \in Payloads : Throw(p)
    /\ UNCHANGED <<cfgVars, rf, copyBufPool, pushed, fi, trail, ctx, tw, mu, done, panicChan, hmode, hops,
                   ret, cpClosed, w, direct, bufp, sel, rdt, arrived>>

\* next returns: close(done) in the goroutine, the return of run otherwise
HReturn ==
    /\ hpc = "running"
    /\ IF hmode = "tw"
       THEN /\ done' = TRUE
            /\ hpc' = "closed"
            /\ cpc' = WakeCpc("done")
            /\ sel' = WakeSel("done", NoPanic)
            /\ arrived' = Append(arrived, "done")
       ELSE /\ hpc' = "exited"
            /\ cpc' = IF ctx.state = "none" THEN "returned" ELSE "cancel"
            /\ UNCHANGED <<done, sel, arrived>>
    /\ UNCHANGED <<cfgVars, rf, copyBufPool, pushed, fi, trail, ctx, tw, mu, panicChan, hmode, hops, ret,
                   cpClosed, w, direct, bufp, raised, rdt, hpanic>>

\* the deferred function recovering without closing the clone
HCloseSkipped ==
    /\ hpc \in {"closed", "panicked"}
    /\ hpc' = IF hpc = "closed" THEN "exited" ELSE "recovered"
    /\ UNCHANGED <<cfgVars, rf, copyBufPool, pushed, cpc, fi, trail, ctx, tw, mu, done, panicChan, hmode,
                   hops, ret, cpClosed, w, direct, bufp, sel, raised, rdt, hpanic, arrived>>

\* the deferred function of the goroutine: cp.Close()
HClose ==
    /\ hpc \in {"closed", "panicked"}
    /\ cpClosed' = TRUE
    /\ hpc' = IF hpc = "closed" THEN "exited" ELSE "recovered"
    /\ UNCHANGED <<cfgVars, rf, copyBufPool, pushed, cpc, fi, trail, ctx, tw, mu, done, panicChan, hmode,
                   hops, ret, w, direct, bufp, sel, raised, rdt, hpanic, arrived>>

\* the send on a panic channel without capacity: it completes only when the
\* controller waits in the select
HSendPanicUnbuffered ==
    /\ hpc = "recovered"
    /\ cpc = "parked"
    /\ hpc' = "exited"
    /\ cpc' = WakeCpc("panic")
    /\ sel' = WakeSel("panic", hpanic)
    /\ arrived' = Append(arrived, "panic")
    /\ UNCHANGED <<cfgVars, rf, copyBufPool, pushed, fi, trail, ctx, tw, mu, done,
                   panicChan, hmode, hops, ret, cpClosed, w, direct, bufp, raised, rdt,
                   hpanic>>

\* the deferred function of the goroutine: panicChan <- p
HSendPanic ==
    /\ hpc = "recovered"
    /\ hpc' = "exited"
    /\ panicChan' = IF cpc = "parked" THEN panicChan ELSE Append(panicChan, hpanic)
    /\ cpc' = WakeCpc("panic")
    /\ sel' = WakeSel("panic", hpanic)
    /\ arrived' = Append(arrived, "panic")
    /\ UNCHANGED <<cfgVars, rf, copyBufPool, pushed, fi, trail, ctx, tw, mu, done, hmode, hops, ret,
                   cpClosed, w, direct, bufp, raised, rdt, hpanic>>

\* ------------------------------------------------ the three terminal paths
\* the deferred cancel()
Cancel(c) == IF c.state = "active" THEN [c EXCEPT !.state = Canceled] ELSE c

\* the deferred bufp.Put(buf)
Put(b) == [b EXCEPT !.puts = @ + 1]

\* case p := <-panicChan: panic(p); the deferred calls run before it leaves
RunReraise ==
    /\ cpc = "reraise"
    /\ raised' = sel.p
    /\ cpc' = "put"
    /\ trail' = Append(trail, <<"raise", 0>>)
    /\ UNCHANGED <<cfgVars, rf, copyBufPool, pushed, fi, ctx, tw, mu, done, panicChan, hpc, hmode, hops, ret,
                   cpClosed, w, direct, bufp, sel, rdt, hpanic, arrived>>

\* the deferred tw.mu.Unlock() of the commit and timeout paths
RunUnlock ==
    /\ cpc = "unlock"
    /\ mu' = "free"
    /\ cpc' = "put"
    /\ trail' = Append(trail, <<"unlock", 0>>)
    /\ UNCHANGED <<cfgVars, rf, copyBufPool, pushed, fi, ctx, tw, done, panicChan, hpc, hmode, hops, ret,
                   cpClosed, w, direct, bufp, sel, raised, rdt, hpanic, arrived>>

\* the deferred call releasing the buffer twice
RunPutTwice ==
    /\ cpc = "put"
    /\ bufp' = Put(Put(bufp))
    /\ cpc' = "cancel"
    /\ trail' = Append(trail, <<"put", 0>>)
    /\ UNCHANGED <<cfgVars, rf, copyBufPool, pushed, fi, ctx, tw, mu, done, panicChan, hpc, hmode, hops, ret,
                   cpClosed, w, direct, sel, raised, rdt, hpanic, arrived>>

\* the deferred bufp.Put(buf)
RunPut ==
    /\ cpc = "put"
    /\ bufp' = Put(bufp)
    /\ cpc' = "cancel"
    /\ trail' = Append(trail, <<"put", 0>>)
    /\ UNCHANGED <<cfgVars, rf, copyBufPool, pushed, fi, ctx, tw, mu, done, panicChan, hpc, hmode, hops, ret,
                   cpClosed, w, direct, sel, raised, rdt, hpanic, arrived>>

\* the deferred cancel(), after which run returns or the panic leaves it
RunCancel ==
    /\ cpc = "cancel"
    /\ ctx' = Cancel(ctx)
    /\ cpc' = IF raised # NoPanic THEN "panicked" ELSE "returned"
    /\ trail' = Append(trail, CASE hmode # "tw" -> <<"cancel", 0>>
                                 [] raised # NoPanic -> <<"panic", 0>>
                                 [] OTHER -> <<"return", 0>>)
    /\ UNCHANGED <<cfgVars, rf, copyBufPool, pushed, fi, tw, mu, done, panicChan, hpc, hmode, hops, ret,
                   cpClosed, w, direct, bufp, sel, raised, rdt, hpanic, arrived>>

\* the commit replacing the header map of the real sink by tw.headers
RunCommitHeadersWhole ==
    /\ cpc = "commit"
    /\ mu = "free"
    /\ mu' = "run"
    /\ w' = [w EXCEPT !.headers = tw.headers]
    /\ cpc' = "commitStatus"
    /\ trail' = trail \o <<<<"lock", 0>>, <<"headers", 0>>>>
    /\ UNCHANGED <<cfgVars, rf, copyBufPool, pushed, fi, ctx, tw, done, panicChan, hpc, hmode, hops, ret,
                   cpClosed, direct, bufp, sel, raised, rdt, hpanic, arrived>>

\* case <-done: tw.mu.Lock() and the copy of the headers
RunCommitHeaders ==
    /\ cpc = "commit"
    /\ mu = "free"
    /\ mu' = "run"
    /\ w' = [w EXCEPT !.headers =
                [k \in Keys |-> IF tw.headers[k] # <<>> THEN tw.headers[k] ELSE @[k]]]
    /\ cpc' = "commitStatus"
    /\ trail' = trail \o <<<<"lock", 0>>, <<"headers", 0>>>>
    /\ UNCHANGED <<cfgVars, rf, copyBufPool, pushed, fi, ctx, tw, done, panicChan, hpc, hmode, hops, ret,
                   cpClosed, direct, bufp, sel, raised, rdt, hpanic, arrived>>

\* w.WriteHeader(tw.code)
RunCommitStatus ==
    /\ cpc = "commitStatus"
    /\ w' = SinkWriteHeader(w, tw.code, "commit")
    /\ cpc' = "commitBody"
    /\ trail' = Append(trail, <<"status", 0>>)
    /\ UNCHANGED <<cfgVars, rf, copyBufPool, pushed, fi, ctx, tw, mu, done, panicChan, hpc, hmode, hops,
                   ret, cpClosed, direct, bufp, sel, raised, rdt, hpanic, arrived>>

\* the buffer put back before its bytes are written to the real sink
RunCommitBodyPutFirst ==
    /\ cpc = "commitBody"
    /\ w' = SinkWrite(w, tw.buf, "commit")
    /\ bufp' = Put(bufp)
    /\ cpc' = "unlock"
    /\ trail' = trail \o <<<<"put", 0>>, <<"body", 0>>>>
    /\ UNCHANGED <<cfgVars, rf, copyBufPool, pushed, fi, ctx, tw, mu, done, panicChan, hpc, hmode, hops, ret,
                   cpClosed, direct, sel, raised, rdt, hpanic, arrived>>

\* _, _ = w.Write(tw.buf.Bytes())
RunCommitBody ==
    /\ cpc = "commitBody"
    /\ w' = SinkWrite(w, tw.buf, "commit")
    /\ cpc' = "unlock"
    /\ trail' = Append(trail, <<"body", 0>>)
    /\ UNCHANGED <<cfgVars, rf, copyBufPool, pushed, fi, ctx, tw, mu, done, panicChan, hpc, hmode, hops, ret,
                   cpClosed, direct, bufp, sel, raised, rdt, hpanic, arrived>>

\* if t.cfg.enableAbortRequestBody; the version that has a Resolver calls
\* w.SetReadDeadline(time.Now()) on every timeout
AbortsRequestBody(c) == c.enableAbortRequestBody \/ c.resolver.set

\* the timeout path storing the sentinel whatever ctx.Err() is
RunTimeoutSentinel ==
    /\ cpc = "timeout"
    /\ mu = "free"
    /\ mu' = "run"
    /\ tw' = [tw EXCEPT !.err = ErrHandlerTimeout]
    /\ cpc' = IF AbortsRequestBody(cfg) THEN "abort" ELSE "respond"
    /\ trail' = trail \o <<<<"lock", 0>>, <<"err", 0>>>>
    /\ UNCHANGED <<cfgVars, rf, copyBufPool, pushed, fi, ctx, done, panicChan, hpc, hmode, hops, ret,
                   cpClosed, w, direct, bufp, sel, raised, rdt, hpanic, arrived>>

\* case <-ctx.Done(): tw.mu.Lock() and the terminal error
RunTimeout ==
    /\ cpc = "timeout"
    /\ mu = "free"
    /\ mu' = "run"
    /\ tw' = [tw EXCEPT !.err = IF ctx.state = DeadlineExceeded
                                 THEN ErrHandlerTimeout ELSE ctx.state]
    /\ cpc' = IF AbortsRequestBody(cfg) THEN "abort" ELSE "respond"
    /\ trail' = trail \o <<<<"lock", 0>>, <<"err", 0>>>>
    /\ UNCHANGED <<cfgVars, rf, copyBufPool, pushed, fi, ctx, done, panicChan, hpc, hmode, hops, ret,
                   cpClosed, w, direct, bufp, sel, raised, rdt, hpanic, arrived>>

\* the read deadline set on the timeoutWriter, which does not support it
RunAbortOnShadow ==
    /\ cpc = "abort"
    /\ w' = w
    /\ cpc' = "respond"
    /\ trail' = Append(trail, <<"deadline", 0>>)
    /\ UNCHANGED <<cfgVars, rf, copyBufPool, pushed, fi, ctx, tw, mu, done, panicChan, hpc, hmode, hops,
                   ret, cpClosed, direct, bufp, sel, raised, rdt, hpanic, arrived>>

\* w.SetReadDeadline(time.Now())
RunAbortRequestBody ==
    /\ cpc = "abort"
    /\ w' = [w EXCEPT !.readDeadline = TRUE]
    /\ cpc' = "respond"
    /\ trail' = Append(trail, <<"deadline", 0>>)
    /\ UNCHANGED <<cfgVars, rf, copyBufPool, pushed, fi, ctx, tw, mu, done, panicChan, hpc, hmode, hops,
                   ret, cpClosed, direct, bufp, sel, raised, rdt, hpanic, arrived>>

\* the responder invoked only once the handler goroutine has terminated
RunRespondJoined ==
    /\ cpc = "respond"
    /\ hpc = "exited"
    /\ w' = Respond(cfg.resp, w)
    /\ cpc' = "unlock"
    /\ trail' = Append(trail, <<"resp", 0>>)
    /\ UNCHANGED <<cfgVars, rf, copyBufPool, pushed, fi, ctx, tw, mu, done, panicChan, hpc, hmode, hops, ret,
                   cpClosed, direct, bufp, sel, raised, rdt, hpanic, arrived>>

\* t.cfg.resp(c)
RunRespond ==
    /\ cpc = "respond"
    /\ w' = Respond(cfg.resp, w)
    /\ cpc' = "unlock"
    /\ trail' = Append(trail, <<"resp", 0>>)
    /\ UNCHANGED <<cfgVars, rf, copyBufPool, pushed, fi, ctx, tw, mu, done, panicChan, hpc, hmode, hops, ret,
                   cpClosed, direct, bufp, sel, raised, rdt, hpanic, arrived>>

\* ----------------------------------------------------------- specification
Next ==
    \/ OptWithFilter
    \/ OptWithResponse
    \/ OptWithAbortRequestBody
    \/ create
    \/ RunFilter
    \/ RunResolve
    \/ RunSetup
    \/ RunSelect
    \/ DeadlineExpire
    \/ UpstreamCancel
    \/ HWrite
    \/ HWriteString
    \/ HWriteHeader
    \/ HSetHeader
    \/ HFlushError
    \/ HHijack
    \/ HSetReadDeadline
    \/ HSetWriteDeadline
    \/ HPush
    \/ HStatus
    \/ HWritten
    \/ HSize
    \/ HReadFrom
    \/ HCopyStep
    \/ HCopyEnd
    \/ HPanic
    \/ HReturn
    \/ HClose
    \/ HSendPanic
    \/ RunReraise
    \/ RunCommitHeaders
    \/ RunCommitStatus
    \/ RunCommitBody
    \/ RunTimeout
    \/ RunAbortRequestBody
    \/ RunRespond
    \/ RunUnlock
    \/ RunPut
    \/ RunCancel

Spec == Init /\ [][Next]_vars

\* The version of the package that has WithTimeoutResolver: its options, its
\* New, its Timeout and the writer operations of a handler.
NextResolver ==
    \/ OptWithFilter
    \/ OptWithResponse
    \/ OptWithTimeoutResolver
    \/ New
    \/ RunResolveContext
    \/ RunFilter
    \/ RunSetup
    \/ RunSelect
    \/ DeadlineExpire
    \/ UpstreamCancel
    \/ HWrite
    \/ HWriteString
    \/ HWriteHeader
    \/ HSetHeader
    \/ HPanic
    \/ HReturn
    \/ HClose
    \/ HSendPanic
    \/ RunReraise
    \/ RunCommitHeaders
    \/ RunCommitStatus
    \/ RunCommitBody
    \/ RunTimeout
    \/ RunAbortRequestBody
    \/ RunRespond
    \/ RunUnlock
    \/ RunPut
    \/ RunCancel

SpecResolver == InitResolver /\ [][NextResolver]_vars

\* The Go scheduler runs every runnable goroutine: the controller, once it can
\* proceed, takes its next step, and so does the deferred function of the
\* handler goroutine once next has returned or panicked.  Nothing is assumed
\* of next itself, which may run for ever.
Fairness ==
    /\ WF_vars(RunSelect)
    /\ WF_vars(RunReraise)
    /\ WF_vars(RunCommitHeaders)
    /\ WF_vars(RunCommitStatus)
    /\ WF_vars(RunCommitBody)
    /\ WF_vars(RunTimeout)
    /\ WF_vars(RunAbortRequestBody)
    /\ WF_vars(RunRespond)
    /\ WF_vars(RunUnlock)
    /\ WF_vars(RunPut)
    /\ WF_vars(RunCancel)
    /\ WF_vars(HClose)
    /\ WF_vars(HSendPanic)

\* The requests followed under the fairness conditions: those of a handler
\* that uses every operation of its writer, on a sink that supports Push.
InitFair == Init /\ caps /\ pusher

SpecFair == InitFair /\ [][Next]_vars /\ Fairness

\* ------------------------------------------------------------- vocabulary
\* number of times the controller did the step tag
Count(tag) == Len(SelectSeq(trail, LAMBDA e : e[1] = tag))

\* the request entered the race: the handler goroutine was started
Raced == hmode = "tw"

\* run is over: it returned or a panic left it
Terminal == cpc \in {"returned", "panicked"}

HandlerBytes == UNION {{p[i] : i \in DOMAIN p} : p \in Chunks \cup Strings}

\* ---------------------------------------------------------------------- C1
\* C1: a request that entered the race executes exactly one of the three
\* terminal paths (commit, timeout responder, re-raise), each at most once,
\* and the real sink never holds output of both the commit and the responder.
C1_ExactlyOnePath ==
    /\ Count("headers") + Count("err") + Count("panic") <= 1
    /\ Count("body") + Count("resp") + Count("panic") <= 1
    /\ (Raced /\ Terminal) => Count("body") + Count("resp") + Count("panic") = 1
    /\ ~Raced => Count("body") + Count("resp") + Count("panic") = 0
    /\ Cardinality(w.by \cap {"commit", "resp"}) <= 1

\* both the done channel and the context were ready when the select decided,
\* and the request ended with the commit alone
C1_Witness ==
    /\ Raced /\ Terminal
    /\ sel.ready = {"done", "ctx"}
    /\ w.by = {"commit"}
    /\ w.body # <<>>

\* ---------------------------------------------------------------------- C2
\* C2: what the handler wrote through the timeoutWriter reaches the real sink
\* only on the commit path, after the handler closed done, and as the whole
\* buffered status and body; on the timeout and re-raise paths no byte of the
\* handler reaches the real sink.
C2_NoPartialResponse ==
    Raced =>
      /\ "handler" \notin w.by
      /\ "commit" \in w.by => /\ sel.case = "done"
                              /\ done
                              /\ hpc \in {"closed", "exited"}
                              /\ w.code = tw.code
                              /\ w.body \in {<<>>, tw.buf}
      /\ (cpc = "returned" /\ sel.case = "done") =>
             /\ w.code = tw.code /\ w.code = direct.code
             /\ w.body = tw.buf /\ w.body = direct.body
      /\ sel.case \in {"ctx", "panic"} =>
             \A i \in DOMAIN w.body : w.body[i] \notin HandlerBytes
      /\ sel.case = "panic" => w = NewSink

\* the handler had buffered bytes when the deadline won, and the responder
\* has answered
C2_Witness ==
    /\ Raced /\ cpc = "returned" /\ sel.case = "ctx"
    /\ tw.buf # <<>>
    /\ w.by = {"resp"}

\* ---------------------------------------------------------------------- C3
\* C3: when the handler's output is committed, the response delivered by the
\* real sink (status, headers, body, byte count) is the one the same handler
\* operations produce when issued directly on the real sink.
C3_CommitEqualsDirect ==
    (Raced /\ cpc = "returned" /\ sel.case = "done") =>
        Delivered(w) = Delivered(direct)

\* ---------------------------------------------------------------------- C4
\* the substitute response of the configured responder on a fresh sink
ExpectedSubstitute ==
    IF cfg.resp = "custom"
    THEN [code |-> StatusRequestTimeout,
          headers |-> [SinkHeader EXCEPT !["T"] = <<"text/plain">>],
          body |-> <<"Request Timeout">>, size |-> 1]
    ELSE [code |-> StatusServiceUnavailable,
          headers |-> [SinkHeader EXCEPT !["T"] = <<"text/plain">>],
          body |-> <<"Service Unavailable">>, size |-> 1]

\* the deadline expired before the handler signalled done or a panic
ExceededDeadline ==
    /\ Raced
    /\ arrived # <<>> /\ arrived[1] = "ctx"
    /\ ctx.state = DeadlineExceeded

\* C4 as stated: every request whose handler exceeds the deadline ends with
\* the responder invoked exactly once and the substitute response delivered.
C4_Original ==
    (ExceededDeadline /\ Terminal) =>
        /\ Count("resp") = 1
        /\ w.by = {"resp"}
        /\ Delivered(w) = ExpectedSubstitute

\* C4 amended: when the handler exceeds the deadline and the select takes the
\* ctx.Done case, the responder is invoked exactly once, on the real sink, the
\* delivered response is the substitute response, and nothing the handler
\* writes, before or after, is on the real sink.
C4_SubstituteOnTimeout ==
    (ExceededDeadline /\ sel.case = "ctx") =>
        /\ Count("resp") <= 1
        /\ w.by \subseteq {"resp"}
        /\ Terminal => /\ Count("resp") = 1
                       /\ cpc = "returned"
                       /\ w.by = {"resp"}
                       /\ Delivered(w) = ExpectedSubstitute

\* the custom responder answered, the handler wrote after the deadline and
\* was refused, then returned
C4_Witness ==
    /\ ExceededDeadline /\ sel.case = "ctx" /\ Terminal
    /\ cfg.resp = "custom"
    /\ arrived = <<"ctx", "done">>
    /\ ret.err = ErrHandlerTimeout
    /\ w.code = StatusRequestTimeout

\* ---------------------------------------------------------------------- C5
\* C5: a panic of the handler signalled before the deadline is re-raised by
\* run in the calling goroutine with the identical payload, and the controller
\* has written nothing to the real sink on the way: no status, no header, no
\* body, no read deadline, no responder.
C5_PanicReraised ==
    (Raced /\ Terminal /\ arrived # <<>> /\ arrived[1] = "panic") =>
        /\ cpc = "panicked"
        /\ raised = hpanic
        /\ w = NewSink

\* ---------------------------------------------------------------------- C6
\* C6: once tw.err is set the buffer is frozen: no step changes the body, the
\* counter, the status code, the written flag or the error, and every Write
\* and WriteString returns (0, tw.err), which is http.ErrHandlerTimeout when
\* the context ended by its deadline.
C6_FrozenAfterError ==
    [][tw.err # NoError =>
         /\ tw'.buf = tw.buf /\ tw'.n = tw.n /\ tw'.code = tw.code
         /\ tw'.written = tw.written /\ tw'.err = tw.err
         /\ (hops' # hops /\ ret'.op \in {"Write", "WriteString"}) =>
                /\ ret'.n = 0
                /\ ret'.err = tw.err
                /\ ctx.state = DeadlineExceeded => ret'.err = ErrHandlerTimeout]_vars

\* a WriteString was refused with the timeout error while the buffer held
\* what the handler wrote before the deadline
C6_Witness ==
    /\ tw.err = ErrHandlerTimeout
    /\ ret = [op |-> "WriteString", code |-> 0, n |-> 0, err |-> ErrHandlerTimeout]
    /\ tw.buf # <<>> /\ tw.n = Len(tw.buf)

\* ---------------------------------------------------------------------- C7
Resolved == Count("resolve") = 1

\* C7: with a resolved duration <= 0 the handler is called directly on the
\* real sink: no buffer is taken from the pool, no goroutine is started, no
\* context is derived and the responder is never invoked.
C7_DisabledBypasses ==
    (Resolved /\ rdt <= 0) =>
        /\ Count("next") = 1 /\ Count("go") = 0
        /\ hmode = "w" /\ hpc # "idle"
        /\ bufp.gets = 0 /\ bufp.puts = 0
        /\ ctx.state = "none"
        /\ tw \in {ZeroWriter(<<>>), ZeroWriter(<<"z">>)}
        /\ sel = NoSelect
        /\ Count("resp") = 0 /\ w.by \subseteq {"handler"}
        /\ w = direct

\* a route annotated with None under a positive global duration: the handler
\* wrote to the real sink and returned
C7_Witness ==
    /\ Resolved /\ route = None /\ dt > 0
    /\ cpc = "returned"
    /\ w.body # <<>> /\ w.by = {"handler"}

\* ---------------------------------------------------------------------- C8
\* C8: when the route carries an After/None annotation the race uses the
\* annotated duration whatever the global duration, and no race takes place
\* when the annotated duration is <= 0.
C8_RouteOverrideWins ==
    route.set =>
        /\ Resolved => rdt = route.dt
        /\ Raced => ctx.timeout = route.dt /\ route.dt > 0
        /\ route.dt <= 0 => ~Raced /\ (Resolved => Count("next") = 1)
        /\ (route.dt > 0 /\ Resolved) => Count("next") = 0

\* a race under After(MaxDt) while the global duration disables the timeout
C8_Witness ==
    /\ route = After(MaxDt) /\ dt <= 0
    /\ Raced /\ ctx.timeout = MaxDt

\* ---------------------------------------------------------------------- C9
\* C9: without a route annotation and with a Resolver configured by
\* WithTimeoutResolver, the Resolver is asked for every request that reaches
\* the handler: the deadline of the race is the Resolver's duration when it
\* returns true and the global duration when it returns false.
C9_ResolverConsulted ==
    (cfg.resolver \in Resolvers /\ ~route.set /\ hpc # "idle") =>
        /\ Resolved
        /\ rdt = IF cfg.resolver.ok THEN cfg.resolver.dt ELSE dt
        /\ Raced => ctx.timeout = rdt

\* --------------------------------------------------------------------- C10
\* the filters evaluated so far
Evaluated == {i \in DOMAIN trail : trail[i][1] = "filter"}

\* C10: filters are evaluated in list order before the duration is resolved;
\* the first one returning true ends the evaluation and the handler is called
\* once, directly on the real sink; the race is entered only when every
\* filter returned false.
C10_FiltersInOrder ==
    /\ \A i \in Evaluated : /\ trail[i][2] = i
                            /\ i <= Len(cfg.filters)
                            /\ \A j \in 1..(i - 1) : ~cfg.filters[j]
    /\ \A i \in Evaluated :
          cfg.filters[i] =>
              /\ Evaluated = 1..i
              /\ Count("next") = 1 /\ Count("resolve") = 0 /\ Count("go") = 0
              /\ hmode = "w" /\ hpc # "idle"
              /\ bufp.gets = 0 /\ ctx.state = "none" /\ sel = NoSelect
    /\ (Resolved \/ Raced) =>
          /\ Evaluated = DOMAIN cfg.filters
          /\ \A i \in DOMAIN cfg.filters : ~cfg.filters[i]
    /\ Count("next") + Count("go") <= 1

\* the second of two filters asked to skip: both were evaluated, the handler
\* wrote to the real sink and returned
C10_Witness ==
    /\ cfg.filters = <<FALSE, TRUE>>
    /\ Evaluated = {1, 2}
    /\ cpc = "returned" /\ w.body # <<>>

\* --------------------------------------------------------------------- C11
\* the derived context ended because the context of the request was cancelled
\* before the deadline
UpstreamCancelled ==
    /\ ctx.state = Canceled
    /\ \E i \in DOMAIN arrived : arrived[i] = "ctx"

\* C11: when the derived context ends by the cancellation of the upstream
\* context before the duration elapsed, the timeout responder is not invoked
\* on the real sink.
C11_NoResponderOnCancel ==
    UpstreamCancelled => Count("resp") = 0 /\ "resp" \notin w.by

\* --------------------------------------------------------------------- C12
\* C12: on the ctx.Done path the terminal error of the timeoutWriter is
\* http.ErrHandlerTimeout exactly when ctx.Err() is DeadlineExceeded, and the
\* error of the context itself otherwise; the writes the handler issues
\* afterwards return the stored error; no other path stores an error.
C12_TerminalError ==
    /\ Count("err") = 0 => tw.err = NoError
    /\ Count("err") >= 1 =>
          /\ Count("err") = 1
          /\ sel.case = "ctx"
          /\ ctx.state \in {DeadlineExceeded, Canceled}
          /\ (tw.err = ErrHandlerTimeout) <=> (ctx.state = DeadlineExceeded)
          /\ ctx.state # DeadlineExceeded => tw.err = ctx.state
    /\ (ret.op \in {"Write", "WriteString"} /\ ret.err # NoError) =>
          /\ ret.err = tw.err /\ ret.n = 0
          /\ UpstreamCancelled => ret.err = Canceled

\* the upstream context was cancelled while the handler ran; the handler's
\* next Write was refused with the error of the context
C12_Witness ==
    /\ UpstreamCancelled
    /\ tw.err = Canceled
    /\ ret.op = "Write" /\ ret.err = Canceled

\* --------------------------------------------------------------------- C13
\* C13: a request that enters the race takes the buffer from the pool once
\* and returns it once, when run ends, on the commit, the timeout and the
\* re-raise path alike; a request that bypasses the race takes and returns
\* nothing; no buffer is returned twice.
C13_PoolBalanced ==
    /\ bufp.gets = (IF Raced THEN 1 ELSE 0)
    /\ bufp.puts <= bufp.gets
    /\ Count("put") = bufp.puts
    /\ Terminal => bufp.puts = bufp.gets
    /\ (~Terminal /\ cpc # "cancel") => bufp.puts = 0
    /\ cpc = "cancel" => bufp.puts = (IF Raced THEN 1 ELSE 0)
    /\ (Raced /\ Terminal) =>
          /\ sel.case \in {"done", "ctx", "panic"}
          /\ bufp = [gets |-> 1, puts |-> 1]

\* the handler panicked after it had written to the buffer, the panic left
\* run and the buffer is back in the pool
C13_Witness ==
    /\ Raced /\ cpc = "panicked" /\ sel.case = "panic"
    /\ tw.buf # <<>>
    /\ bufp = [gets |-> 1, puts |-> 1]

\* --------------------------------------------------------------------- C17
\* C17: on the timeout path the controller sets an immediate read deadline
\* on the real sink exactly when enableAbortRequestBody is set, after it
\* stored the terminal error and before it invokes the responder; it sets
\* none on the commit, re-raise and bypass paths.
C17_AbortOnlyOnTimeout ==
    /\ Count("deadline") <= 1
    /\ w.readDeadline <=> (Count("deadline") = 1)
    /\ Count("deadline") = 1 =>
          /\ cfg.enableAbortRequestBody
          /\ sel.case = "ctx"
          /\ tw.err # NoError
    /\ \A i \in DOMAIN trail :
          trail[i][1] = "deadline" =>
              /\ i > 1 /\ trail[i - 1][1] = "err"
              /\ \A j \in 1..i : trail[j][1] # "resp"
    /\ \A i \in DOMAIN trail :
          trail[i][1] = "resp" =>
              /\ i > 1
              /\ trail[i - 1][1] = (IF cfg.enableAbortRequestBody
                                    THEN "deadline" ELSE "err")
    /\ (~Raced \/ sel.case \in {"done", "panic"}) => ~w.readDeadline

\* with the option enabled the deadline won: the read deadline is set and the
\* responder has answered
C17_Witness ==
    /\ cfg.enableAbortRequestBody
    /\ cpc = "returned" /\ sel.case = "ctx"
    /\ w.readDeadline /\ w.by = {"resp"}

\* --------------------------------------------------------------------- C19
\* the positions of the controller on the path of a case of the select
Paths(c) ==
    CASE c = "done" -> {"commit", "commitStatus", "commitBody", "unlock", "put", "cancel", "returned"}
      [] c = "panic" -> {"reraise", "put", "cancel", "panicked"}
      [] c = "ctx" -> {"timeout", "abort", "respond", "unlock", "put", "cancel", "returned"}

\* C19 as stated: the signal that became ready first decides the path,
\* whenever the controller gets to observe the signals.
C19_Original ==
    (Raced /\ sel.case # "none") =>
        /\ sel.case = arrived[1]
        /\ cpc \in Paths(arrived[1])

\* C19 amended: the select takes one of the signals that are ready when it
\* decides, the first one to become ready is among them, and the controller
\* follows the path of the case taken and no other; a signal that is the
\* only one ready then, as every signal that finds the controller blocked in
\* the select is, decides the path.
C19_ReadyDecides ==
    sel.case # "none" =>
        /\ Raced
        /\ arrived # <<>> /\ arrived[1] \in sel.ready
        /\ sel.ready \subseteq {arrived[i] : i \in DOMAIN arrived}
        /\ sel.case \in sel.ready
        /\ Cardinality(sel.ready) = 1 => sel.case = arrived[1]
        /\ cpc \in Paths(sel.case)
        /\ sel.case = "done" => Count("err") + Count("resp") + Count("panic") = 0
        /\ sel.case = "ctx" => Count("headers") + Count("body") + Count("panic") = 0
        /\ sel.case = "panic" => Count("headers") + Count("body") + Count("err") = 0

\* the deadline found the controller blocked in the select and the handler
\* returned afterwards: the substitute response was delivered
C19_Witness ==
    /\ sel.ready = {"ctx"} /\ sel.case = "ctx"
    /\ arrived = <<"ctx", "done">>
    /\ ctx.state = DeadlineExceeded
    /\ cpc = "returned" /\ Count("resp") = 1

\* --------------------------------------------------------------------- C18
\* C18: WriteHeader on the timeoutWriter with a status code outside 100..999
\* panics, whether nothing was written yet, the status is already stored or
\* the terminal error is set, and leaves the stored code, the written flag,
\* the body, the counter and the real sink as they were.
C18_InvalidCodePanics ==
    [][(/\ hops' = hops + 1
        /\ hmode = "tw"
        /\ ret'.op = "WriteHeader"
        /\ (ret'.code < MinStatusCode \/ ret'.code > MaxStatusCode)) =>
           /\ hpc' = "panicked"
           /\ hpanic' = InvalidCodePayload(ret'.code)
           /\ tw' = tw
           /\ w' = w]_vars

\* after the timeout path stored the terminal error over a buffer the handler
\* had written to, the handler called WriteHeader(99) and panicked
C18_Witness ==
    /\ hmode = "tw"
    /\ ret.op = "WriteHeader" /\ ret.code = 99
    /\ hpanic = InvalidCodePayload(99)
    /\ tw.err = ErrHandlerTimeout /\ tw.written /\ tw.buf # <<>>

\* --------------------------------------------------------------------- C20
\* C20: on a timeoutWriter without terminal error the first WriteHeader,
\* Write or WriteString sets the written flag and stores the status: the code
\* passed to WriteHeader, 200 for a Write or WriteString, the Write of a
\* ReadFrom included; once the flag is set no step changes the stored code or
\* clears the flag.
C20_FirstStatusWins ==
    [][/\ tw.written => tw'.written /\ tw'.code = tw.code
       /\ (~tw.written /\ tw'.written) =>
             /\ hmode = "tw"
             /\ tw.err = NoError
             /\ IF hpc = "copying"
                THEN tw'.code = StatusOK
                ELSE /\ hops' = hops + 1
                     /\ ret'.op \in {"WriteHeader", "Write", "WriteString"}
                     /\ tw'.code = IF ret'.op = "WriteHeader" THEN ret'.code
                                                              ELSE StatusOK
       /\ (/\ hops' = hops + 1 /\ hmode = "tw" /\ tw.err = NoError
           /\ \/ ret'.op \in {"Write", "WriteString"}
              \/ /\ ret'.op = "WriteHeader"
                 /\ ret'.code >= MinStatusCode /\ ret'.code <= MaxStatusCode) =>
             tw'.written]_vars

\* WriteHeader(201) came first and a later WriteHeader(404) was ignored
C20_Witness ==
    /\ hmode = "tw" /\ tw.err = NoError
    /\ tw.written /\ tw.code = 201
    /\ ret.op = "WriteHeader" /\ ret.code = 404

\* --------------------------------------------------------------------- C16
\* C16: WithFilter appends: while create applies the options the filter list
\* of the config is the concatenation of the filters passed so far, so that
\* no request for which one of the filters passed returns true enters the
\* race.
C16_WithFilterAppends ==
    /\ cpc = "create" => cfg.filters = given
    /\ skipAsked => ~Raced

\* --------------------------------------------------------------------- C14
Unsupported == {"FlushError", "Hijack", "SetReadDeadline", "SetWriteDeadline"}

\* C14: FlushError, Hijack, SetReadDeadline and SetWriteDeadline called on
\* the timeoutWriter return the not-supported error in every state of the
\* race and change neither the real sink nor the timeoutWriter, nor anything
\* else of the race.
C14_AlwaysUnsupported ==
    [][(hops' = hops + 1 /\ hmode = "tw" /\ ret'.op \in Unsupported) =>
           /\ ret'.err = ErrNotSupported
           /\ tw' = tw /\ w' = w /\ pushed' = pushed
           /\ UNCHANGED <<cpc, hpc, mu, ctx, done, panicChan, sel, bufp, trail>>]_vars

\* the handler asked for a read deadline while the controller held tw.mu on
\* the timeout path; the responder has answered and the real sink has no
\* read deadline
C14_Witness ==
    /\ ret.op = "SetReadDeadline" /\ ret.err = ErrNotSupported
    /\ tw.err = ErrHandlerTimeout
    /\ cpc = "returned" /\ w.by = {"resp"}
    /\ ~w.readDeadline

\* --------------------------------------------------------------------- C15
\* C15: Push called on the timeoutWriter reaches the real sink only when the
\* real sink supports it and no terminal error is set; otherwise it returns
\* the not-supported error and the real sink receives nothing.
C15_PushOnlyBeforeOutcome ==
    [][(hops' = hops + 1 /\ hmode = "tw" /\ ret'.op = "Push") =>
           IF pusher /\ tw.err = NoError
           THEN pushed' = pushed + 1 /\ ret'.err = NoError
           ELSE pushed' = pushed /\ ret'.err = ErrNotSupported]_vars

\* --------------------------------------------------------------------- C21
\* the signals the handler goroutine has given, in order
Signals == SelectSeq(arrived, LAMBDA s : s \in {"done", "panic"})

\* C21: the handler goroutine gives exactly one signal per request: done is
\* closed after a normal return, or the panic payload is sent on the
\* capacity-one channel; never both, and never neither once the goroutine has
\* terminated.  The clone is closed in both cases, and before a failure is
\* signalled.
C21_ExactlyOneSignal ==
    /\ Len(Signals) <= 1
    /\ Len(panicChan) <= 1
    /\ done <=> Signals = <<"done">>
    /\ (hmode = "tw" /\ hpc = "exited") => (Len(Signals) = 1 /\ cpClosed)
    /\ Signals = <<"panic">> => (cpClosed /\ ~done /\ hpanic # NoPanic)
    /\ panicChan # <<>> => (Signals = <<"panic">> /\ panicChan = <<hpanic>>)

\* the goroutine terminated after a panic: the clone is closed, the payload was
\* sent, done stays open
C21_Witness ==
    /\ hmode = "tw"
    /\ hpc = "exited"
    /\ Signals = <<"panic">>
    /\ cpClosed
    /\ ~done

\* --------------------------------------------------------------------- C22
\* the controller took the ctx.Done case and has not returned yet
OnTimeoutPath ==
    \/ cpc \in {"timeout", "abort", "respond"}
    \/ sel.case = "ctx" /\ cpc \in {"unlock", "put", "cancel"}

\* C22: on the expiry of the deadline the controller returns without waiting
\* for the handler: once it took the ctx.Done case it eventually returns,
\* whatever the handler does and even if the handler never finishes, and none
\* of its steps on that path changes the position of the handler, which may
\* still be running after the controller returned.
C22_ReturnsWithoutHandler ==
    /\ OnTimeoutPath ~> (cpc = "returned")
    /\ [][(OnTimeoutPath /\ cpc' # cpc) =>
            (hpc' = hpc /\ hops' = hops /\ hpanic' = hpanic)]_vars

\* the controller returned on the timeout path and the handler is still running
C22_Witness ==
    /\ cpc = "returned"
    /\ sel.case = "ctx"
    /\ Count("resp") = 1
    /\ hpc = "running"
    /\ hops = 0

\* --------------------------------------------------------------------- C23
\* the methods of the timeoutWriter that read or change its fields
FieldAccess == {"Header", "Status", "Written", "Size", "Write", "WriteString",
                "WriteHeader"}

\* C23: every read or mutation of the fields of the timeoutWriter by the
\* handler is made while the handler holds tw.mu: none of Header, Status,
\* Written, Size, Write, WriteString and WriteHeader completes while the
\* controller holds the lock.
C23_AccessUnderLock ==
    [][(hmode = "tw" /\ hops' = hops + 1 /\ ret'.op \in FieldAccess) => mu = "free"]_vars

\* --------------------------------------------------------------------- C24
\* C24: when the handler is launched the timeoutWriter is fully reset,
\* whatever the pooled buffer held: the body is empty, the counter is 0, the
\* status is 200, written is false, the terminal error is unset and the header
\* map is empty.
C24_ResetAtLaunch ==
    [][(cpc = "setup" /\ hpc' = "running") =>
          /\ tw'.buf = <<>>
          /\ tw'.n = 0
          /\ tw'.code = StatusOK
          /\ tw'.written = FALSE
          /\ tw'.err = NoError
          /\ \A k \in Keys : tw'.headers[k] = <<>>]_vars

\* the handler was launched on a buffer that held a byte of an earlier request
C24_Witness ==
    /\ cpc = "select"
    /\ hpc = "running"
    /\ hops = 0
    /\ \E i \in DOMAIN trail : trail[i] = <<"get", 1>>
    /\ tw.buf = <<>>

\* --------------------------------------------------------------------- C25
\* the steps in which the controller uses the timeoutWriter and its buffer
UsesBuffer == {"lock", "headers", "status", "body", "err", "deadline", "resp", "unlock"}

\* C25: on every path of the race the buffer goes back to the pool once, only
\* after the controller finished using it and before the caller regains
\* control: on the commit path after the body was written to the real sink and
\* the lock released, on the timeout path after the responder ran and the lock
\* was released, on the re-raise path before the panic leaves run.
C25_PutAfterUse ==
    Raced =>
        /\ bufp.puts = Count("put")
        /\ Count("put") <= 1
        /\ Terminal => Count("put") = 1
        /\ \A i \in DOMAIN trail :
              trail[i][1] = "put" =>
                  /\ mu = "free"
                  /\ i = Len(trail) => cpc = "cancel"
                  /\ i < Len(trail) => (i + 1 = Len(trail) /\ Terminal)
                  /\ \A j \in (i + 1)..Len(trail) : trail[j][1] \notin UsesBuffer
                  /\ sel.case = "done" =>
                        /\ i > 2
                        /\ trail[i - 2][1] = "body"
                        /\ trail[i - 1][1] = "unlock"
                        /\ i < Len(trail) => trail[i + 1][1] = "return"
                  /\ sel.case = "ctx" =>
                        /\ i > 2
                        /\ trail[i - 2][1] = "resp"
                        /\ trail[i - 1][1] = "unlock"
                        /\ i < Len(trail) => trail[i + 1][1] = "return"
                  /\ sel.case = "panic" =>
                        /\ i > 1
                        /\ trail[i - 1][1] = "raise"
                        /\ i < Len(trail) => trail[i + 1][1] = "panic"
                        /\ Count("lock") = 0

\* the commit path ended: the body is in the real sink, the buffer in the pool
C25_Witness ==
    /\ cpc = "returned"
    /\ sel.case = "done"
    /\ w.body # <<>>
    /\ w.body = tw.buf
    /\ bufp = [gets |-> 1, puts |-> 1]
    /\ mu = "free"

\* --------------------------------------------------------------------- C26
\* C26: ReadFrom(src) does what feeding the bytes of src to Write chunk by
\* chunk does: each chunk is appended to the body, added to the counter, sets
\* written and leaves the status at 200 unless one was stored; once the
\* terminal error is set nothing more is appended and ReadFrom returns that
\* error with the bytes copied so far; at the end of src it returns the bytes
\* copied and the error of src, if any.  The copy buffer taken from
\* copyBufPool is put back exactly once, on the successful and on the failing
\* exit.
C26_ReadFromAsWrites ==
    [][/\ (hpc = "copying" /\ rf.src # <<>> /\ rf' # rf) =>
            LET p == Head(rf.src)
            IN IF tw.err # NoError
               THEN /\ tw' = tw
                    /\ ret' = [op |-> "ReadFrom", code |-> 0, n |-> rf.n, err |-> tw.err]
                    /\ hpc' = "running"
                    /\ copyBufPool'.puts = copyBufPool.puts + 1
               ELSE /\ tw'.buf = tw.buf \o p
                    /\ tw'.n = tw.n + Len(p)
                    /\ tw'.written
                    /\ tw'.code = (IF tw.written THEN tw.code ELSE StatusOK)
                    /\ tw'.headers = tw.headers
                    /\ tw'.err = NoError
                    /\ rf'.n = rf.n + Len(p)
                    /\ rf'.src = Tail(rf.src)
                    /\ hpc' = "copying"
                    /\ copyBufPool' = copyBufPool
       /\ (hpc = "copying" /\ rf.src = <<>> /\ rf' # rf) =>
            /\ tw' = tw
            /\ ret' = [op |-> "ReadFrom", code |-> 0, n |-> rf.n, err |-> rf.fail]
            /\ hpc' = "running"
            /\ copyBufPool'.puts = copyBufPool.puts + 1
       /\ copyBufPool'.gets = copyBufPool'.puts + (IF hpc' = "copying" THEN 1 ELSE 0)
      ]_vars

\* a ReadFrom that the timeout interrupted after its first chunk: one chunk is
\* in the buffer, the terminal error was returned, the copy buffer is back
C26_Witness ==
    /\ ret = [op |-> "ReadFrom", code |-> 0, n |-> 1, err |-> ErrHandlerTimeout]
    /\ tw.buf = <<"a">>
    /\ tw.n = 1
    /\ hpc = "running"
    /\ copyBufPool = [gets |-> 1, puts |-> 1]

\* --------------------------------------------------------------------- C27
\* the methods of the timeoutWriter that take tw.mu
Locking == {"Write", "WriteString", "WriteHeader"}

\* the positions of the timeout path at which the controller holds tw.mu
HoldsLock == {"abort", "respond", "unlock"}

\* the positions of run after its deferred Unlock
Unlocked == {"put", "cancel", "returned"}

\* C27: on the timeout path the terminal error is stored under tw.mu before
\* the responder is invoked, and the controller holds the lock until the
\* deferred Unlock with which its return begins.  A Write, WriteString or
\* WriteHeader of the handler that interleaves with the responder appends
\* nothing and completes only after that Unlock, so it waits no longer than
\* until the controller has returned; Write and WriteString then return the
\* terminal error.
C27_LockedUntilReturn ==
    [][/\ (sel.case = "ctx" /\ cpc \in HoldsLock) => (mu = "run" /\ tw.err # NoError)
       /\ (sel'.case = "ctx" /\ cpc' \in HoldsLock) => (mu' = "run" /\ tw'.err # NoError)
       /\ (cpc = "respond" /\ cpc' # cpc) =>
             /\ cpc' = "unlock"
             /\ Count("resp")' = 1
             /\ tw' = tw
       /\ (sel.case = "ctx" /\ cpc = "unlock" /\ cpc' # cpc) =>
             /\ cpc' = "put"
             /\ mu' = "free"
             /\ tw' = tw
       /\ (sel.case = "ctx" /\ cpc' = "returned") => mu' = "free"
       /\ (sel.case = "ctx" /\ mu = "run") =>
             /\ tw'.buf = tw.buf /\ tw'.n = tw.n
             /\ tw'.code = tw.code /\ tw'.written = tw.written
             /\ tw'.err = tw.err
             /\ rf' # rf => rf.src = <<>>
             /\ ~(hops' = hops + 1 /\ ret'.op \in Locking)
       /\ (tw.err # NoError /\ hops' = hops + 1 /\ ret'.op \in Locking) =>
             /\ cpc \in Unlocked
             /\ mu = "free"
             /\ tw' = tw
             /\ ret'.op # "WriteHeader" => (ret'.err = tw.err /\ ret'.n = 0)
      ]_vars

\* the controller released the lock on the timeout path and, before it put
\* the buffer back, a Write of the handler was refused with the terminal error
C27_Witness ==
    /\ cpc = "put"
    /\ sel.case = "ctx"
    /\ Count("resp") = 1
    /\ bufp.puts = 0
    /\ mu = "free"
    /\ ret.op = "Write"
    /\ ret.err = ErrHandlerTimeout
    /\ tw.buf = <<>>

\* --------------------------------------------------------------------- C28
\* the controller has left the select: the outcome is decided
Decided == Raced /\ cpc \notin {"select", "parked"}

\* C28: a handler that returns or panics after the controller decided never
\* blocks on its signal: the close of done and the send on the capacity-one
\* panic channel complete without a receiver, so the handler goroutine always
\* terminates once next has ended, and the late signal changes neither the path
\* of the controller nor the real sink.
C28_LateSignalNeverBlocks ==
    /\ (hmode = "tw" /\ hpc \in {"closed", "panicked", "recovered"}) ~> (hpc = "exited")
    /\ [][(Decided /\ Len(Signals') > Len(Signals)) =>
             /\ cpc' = cpc
             /\ sel' = sel
             /\ w' = w
             /\ raised' = raised
             /\ trail' = trail]_vars

\* the handler panicked after the timeout path ended: its goroutine terminated,
\* the payload stays in the channel and run did not panic
C28_Witness ==
    /\ cpc = "returned"
    /\ sel.case = "ctx"
    /\ Count("resp") = 1
    /\ hmode = "tw"
    /\ hpc = "exited"
    /\ arrived = <<"ctx", "panic">>
    /\ panicChan = <<hpanic>>
    /\ raised = NoPanic

\* --------------------------------------------------------------------- C29
\* C29: once run has put the buffer back into the pool, nothing changes it
\* through the timeoutWriter of that request: a handler still running after a
\* timeout cannot append to a buffer that a later request may have taken.  The
\* committed response holds the bytes the handler of the request wrote, and
\* nothing the pooled buffer held before.
C29_NoWriteAfterPut ==
    [][/\ bufp.puts > 0 => (tw'.buf = tw.buf /\ tw'.n = tw.n)
       /\ (cpc = "commitBody" /\ cpc' # cpc) =>
             /\ bufp.puts = 0
             /\ w'.body = tw.buf
             /\ w'.body = direct.body
             /\ \A i \in DOMAIN tw.buf : tw.buf[i] \in HandlerBytes]_vars

\* the handler wrote one chunk, the timeout path put the buffer back, and the
\* WriteString that followed was refused
C29_Witness ==
    /\ cpc = "returned"
    /\ sel.case = "ctx"
    /\ bufp = [gets |-> 1, puts |-> 1]
    /\ hops = 2
    /\ ret.op = "WriteString"
    /\ ret.err = ErrHandlerTimeout
    /\ tw.buf = <<"a">>

\* --------------------------------------------------------------------- C30
\* C30: from the construction of the timeoutWriter on, Size() is the length
\* of the buffered body, the counter never decreases, and a counter that is
\* not zero implies that written is true.
C30_SizeIsBodyLength ==
    [][Raced' =>
          /\ Size(tw') = Len(tw'.buf)
          /\ Size(tw') # 0 => Written(tw')
          /\ Raced => Size(tw') >= Size(tw)]_vars

\* a Write and a WriteString went into the buffer: three bytes, counter three
C30_Witness ==
    /\ Raced
    /\ hops = 2
    /\ ret.op = "WriteString"
    /\ ret.n = 2
    /\ Size(tw) = 3
    /\ tw.buf = <<"a", "b", "c">>
    /\ Written(tw)

\* --------------------------------------------------------------------- C31
\* the headers the commit leaves on a real sink that carried hs
Merged(hs) == [k \in Keys |-> IF tw.headers[k] # <<>> THEN tw.headers[k] ELSE hs[k]]

\* C31: the commit copies the headers key by key: every key of tw.headers,
\* those set after a Write or WriteHeader finalized the status included,
\* replaces the value list of the real sink for that key, the keys of the real
\* sink that the handler did not set keep their values, and the copy comes
\* before the status and the body are written, so that the response carries
\* the merged headers.
C31_HeadersPerKey ==
    [][/\ (cpc = "commit" /\ cpc' # cpc) =>
             /\ ~w.wroteHeader /\ w.body = <<>>
             /\ w'.headers = Merged(w.headers)
             /\ ~w'.wroteHeader /\ w'.body = <<>>
             /\ tw' = tw
       /\ (cpc # "returned" /\ cpc' = "returned" /\ sel.case = "done") =>
             /\ w'.wroteHeader
             /\ Delivered(w').headers = Merged(SinkHeader)
             /\ Count("headers") = 1 /\ Count("status") = 1
             /\ \A i, j \in DOMAIN trail' :
                   (trail'[i][1] = "headers" /\ trail'[j][1] \in {"status", "body"})
                       => i < j]_vars

\* the handler wrote a chunk and then replaced the header the real sink
\* carried: the committed response has the chunk and the handler's value
C31_Witness ==
    /\ cpc = "returned"
    /\ sel.case = "done"
    /\ hops = 2
    /\ ret.op = "Header"
    /\ tw.buf = <<"a">>
    /\ tw.headers["S"] = <<"v">>
    /\ tw.headers["K"] = <<>>
    /\ Delivered(w).headers = [SinkHeader EXCEPT !["S"] = <<"v">>]
    /\ Delivered(w).body = <<"a">>
    /\ Delivered(direct).headers = SinkHeader

====
